---- MODULE Spec2Model ----
(***************************************************************************)
(* Model of the GitLab -> Gitea migration tool.                            *)
(*                                                                         *)
(*   Spec      Migration.migrateProjects   (src/src/migration.ts)          *)
(*   SpecList  GitLab.getPaged / GitLab.listProjects and the head of the   *)
(*             CLI's main (src/unnamed/part_000, src/src/index.ts)         *)
(*   SpecSort  the comparator and Array.prototype.sort call of             *)
(*             GitLab.listProjects (src/unnamed/part_000)                  *)
(*   SpecRepo  Migration.repoName          (src/src/migration.ts)          *)
(*   SpecKeys  Migration.migrateKeys       (src/src/migration.ts)          *)
(*   SpecOwners  Gitea.listOwners, userInfo, listOrgs (src/src/gitea.ts)   *)
(*   SpecRun   main from the confirmation prompt on: migrateProjects, then  *)
(*             migrateKeys (src/src/index.ts)                              *)
(*                                                                         *)
(* JavaScript runs the code on one thread: a promise callback runs only    *)
(* when the synchronous code before it has reached its await, and each     *)
(* callback runs to completion.  Every callback is one action.             *)
(***************************************************************************)
EXTENDS Integers, Sequences, FiniteSets

VARIABLES
    \* ---- Migration.migrateProjects
    projects,     \* the input list (entities are named by their position)
    hasBar,       \* this.progressBar is set (Migration constructor)
    callState,    \* "idle" | "launching" | "awaiting" | "returned" | "thrown"
    launched,     \* number of loop iterations done (POSTs pushed on migrations)
    posts,        \* POST /repos/migrate requests issued, in order
    pc,           \* per entity: where its promise chain is
    resp,         \* per entity: how its POST settled
    arrived,      \* the entities in the order their POSTs settled
    chain,        \* per entity: state of the promise pushed on migrations
    result,       \* the MigrationResult accumulator
    bar,          \* calls received by the progress bar, in order
    retval,       \* what the call returned
    \* ---- GitLab.getPaged / listProjects / main
    listPc,       \* "idle" | "request" | "waiting" | "returned"
    nextPage,     \* getPaged's nextPage: undefined, NaN or a number
    requests,     \* GETs issued to GitLab, in order
    responses,    \* getPaged's responses array
    listFailed,   \* a listing request was rejected
    listed,       \* what listProjects returned
    mainPc,       \* position of the CLI's main
    selected,     \* the operator's selection (prompt.projects)
    teaRequests,  \* requests issued to Gitea by main, in order
    console,      \* lines printed
    \* ---- sort
    engine,       \* the Array.prototype.sort implementation of the runtime
    sortIn,       \* the array before projects.sort(...)
    sortOut,      \* the array after
    sortAgain,    \* the sorted array, sorted once more
    sortPc,       \* "idle" | "unsorted" | "sorted" | "resorted"
    \* ---- Migration.repoName
    fullPath,     \* project.fullPath
    repoOut,      \* what repoName returned
    repoPc,       \* "idle" | "call" | "done"
    \* ---- Migration.migrateKeys
    kProjects,    \* the input list (entities are named by their position)
    kHasBar,      \* this.progressBar is set
    kState,       \* "idle" | "fetching" | "fetched" | "awaiting" | "returned" | "thrown"
    kDone,        \* number of loop iterations completed
    kFetches,     \* GET deploy_keys requests issued, in order, with their state
    kFetch,       \* how the fetch of the current entity ended (keys, failed, threw)
    kAttaches,    \* POST .../keys requests pushed on migrations, with their state
    kResult,      \* the MigrationResult accumulator
    kBar,         \* calls received by the progress bar, in order
    kRetval,      \* what the call returned
    \* ---- Gitea.listOwners
    oPc,          \* main at "let owners = await tea.listOwners()": "idle" | "waiting" | "returned" | "thrown"
    oRequests,    \* GETs issued to Gitea, in order
    oUserGet,     \* the GET /user request: state, response body, failure cause
    oOrgsGet,     \* the GET /user/orgs request: state, response body, failure cause
    oUser,        \* the promise returned by userInfo()
    oOrgs,        \* the promise returned by listOrgs()
    oResult,      \* the promise returned by listOwners()
    oSettled,     \* the requests in the order their responses arrived
    \* ---- main, from the confirmation prompt on
    runPc,        \* "idle" | "prompt" | "declined" | "projects" | "keys" | "done" | "thrown"
    optIn         \* prompt.migrateKeys

mvars == <<projects, hasBar, callState, launched, posts, pc, resp, arrived, chain, result, bar, retval>>
lvars == <<listPc, nextPage, requests, responses, listFailed, listed, mainPc, selected, teaRequests, console>>
svars == <<engine, sortIn, sortOut, sortAgain, sortPc>>
rvars == <<fullPath, repoOut, repoPc>>
kvars == <<kProjects, kHasBar, kState, kDone, kFetches, kFetch, kAttaches, kResult, kBar, kRetval>>
ovars == <<oPc, oRequests, oUserGet, oOrgsGet, oUser, oOrgs, oResult, oSettled>>
cvars == <<runPc, optIn>>
vars == <<mvars, lvars, svars, rvars, kvars, ovars, cvars>>

(***************************************************************************)
(* Bounds                                                                  *)
(***************************************************************************)
MaxProjects == 3

MaxSortLen == 3

MaxRequests == 3

MaxSegments == 4

MaxKeyProjects == 2

MaxKeys == 2

MaxTotalKeys == 4

MaxOrgs == 2

MaxRunProjects == 2

MaxRunKeys == 1

(***************************************************************************)
(* Helpers on sequences                                                    *)
(***************************************************************************)
Range(s) == {s[i] : i \in DOMAIN s}

Count(s, x) == Cardinality({i \in DOMAIN s : s[i] = x})

(***************************************************************************)
(* Migration.migrateProjects                                               *)
(***************************************************************************)
\* HTTP status of "repository already exists" on POST /repos/migrate
Conflict == 409

\* statuses the destination answers with: created, conflict, server error
Statuses == {201, Conflict, 500}

\* axios resolves the POST on a 2xx status and rejects it otherwise.
\* How a POST can settle: an HTTP response with a status, or a transport
\* failure, where the axios error has no response property.
Settlements ==
    [hasResponse : {TRUE}, status : Statuses] \cup {[hasResponse |-> FALSE, status |-> 0]}

Pending == [hasResponse |-> FALSE, status |-> -1]

Resolved(r) == r.hasResponse /\ r.status >= 200 /\ r.status < 300

EmptyResult == [success |-> <<>>, skipped |-> <<>>, failed |-> <<>>, errors |-> <<>>]

\* the formatted error line: it names the entity and the destination status
ErrorLine(p, r) == [project |-> p, status |-> r.status]

RECURSIVE InsertInOrder(_, _)
InsertInOrder(list, p) ==
    IF list = <<>> THEN <<p>>
    ELSE IF p < Head(list) THEN <<p>> \o list
    ELSE <<Head(list)>> \o InsertInOrder(Tail(list), p)

ThenHandlerInputOrder(res, p) == [res EXCEPT !.success = InsertInOrder(@, p)]

\* .then(() => { result.success.push(project) })
ThenHandler(res, p) == [res EXCEPT !.success = Append(@, p)]

\* response.response.status on an error without a response: TypeError
CatchThrows(r) == ~r.hasResponse

CatchHandlerNoReturn(res, p, r) ==
    LET s == IF r.status = Conflict THEN [res EXCEPT !.skipped = Append(@, p)] ELSE res
    IN  [s EXCEPT !.errors = Append(@, ErrorLine(p, r)), !.failed = Append(@, p)]

CatchHandlerKeyStatus(res, p, r) ==
    IF r.status = 422
    THEN [res EXCEPT !.skipped = Append(@, p)]
    ELSE [res EXCEPT !.errors = Append(@, ErrorLine(p, r)), !.failed = Append(@, p)]

\* .catch(async (response) => { ... })
CatchHandler(res, p, r) ==
    IF r.status = Conflict
    THEN [res EXCEPT !.skipped = Append(@, p)]
    ELSE [res EXCEPT !.errors = Append(@, ErrorLine(p, r)), !.failed = Append(@, p)]

Entities == 1..Len(projects)

MInit ==
    /\ \E n \in 0..MaxProjects : projects = [i \in 1..n |-> i]
    /\ hasBar \in BOOLEAN
    /\ callState = "idle"
    /\ launched = 0
    /\ posts = <<>>
    /\ pc = [e \in Entities |-> "idle"]
    /\ resp = [e \in Entities |-> Pending]
    /\ arrived = <<>>
    /\ chain = [e \in Entities |-> "pending"]
    /\ result = EmptyResult
    /\ bar = <<>>
    /\ retval = EmptyResult

\* the state of a run in which migrateProjects is not called
MIdle ==
    /\ projects = <<>>
    /\ hasBar = FALSE
    /\ callState = "idle"
    /\ launched = 0
    /\ posts = <<>>
    /\ pc = <<>>
    /\ resp = <<>>
    /\ arrived = <<>>
    /\ chain = <<>>
    /\ result = EmptyResult
    /\ bar = <<>>
    /\ retval = EmptyResult

\* lines 57-71: the call starts; the reporter is started with the entity count
Start ==
    /\ callState = "idle"
    /\ callState' = "launching"
    /\ bar' = IF hasBar THEN Append(bar, [op |-> "start", total |-> Len(projects)]) ELSE bar
    /\ UNCHANGED <<projects, hasBar, launched, posts, pc, resp, arrived, chain, result, retval>>

\* lines 73-113: one iteration of the loop issues the POST for the next entity
Launch ==
    /\ callState = "launching"
    /\ launched < Len(projects)
    /\ launched' = launched + 1
    /\ posts' = Append(posts, projects[launched + 1])
    /\ pc' = [pc EXCEPT ![launched + 1] = "inflight"]
    /\ UNCHANGED <<projects, hasBar, callState, resp, arrived, chain, result, bar, retval>>

\* line 115: the loop is over, the call suspends on Promise.all
Suspend ==
    /\ callState = "launching"
    /\ launched = Len(projects)
    /\ callState' = "awaiting"
    /\ UNCHANGED <<projects, hasBar, launched, posts, pc, resp, arrived, chain, result, bar, retval>>

SuspendedOrNot(state) == state # "idle"

\* callbacks run only once the synchronous code of the call has reached its
\* await (line 115)
Suspended(state) == state \notin {"idle", "launching"}

\* the callbacks that follow a settlement are microtasks: the chain of an
\* entity has run to its end before the next response is delivered
Drained(p) == \A f \in DOMAIN p : p[f] \in {"idle", "inflight", "finalized"}

\* the destination answers the POST of e, or the transport fails
Respond(e) ==
    /\ Suspended(callState)
    /\ Drained(pc)
    /\ pc[e] = "inflight"
    /\ \E r \in Settlements : resp' = [resp EXCEPT ![e] = r]
    /\ arrived' = Append(arrived, e)
    /\ pc' = [pc EXCEPT ![e] = "responded"]
    /\ UNCHANGED <<projects, hasBar, callState, launched, posts, chain, result, bar, retval>>

\* lines 89-106: the then callback or the catch callback of e runs
Handle(e) ==
    /\ pc[e] = "responded"
    /\ pc' = [pc EXCEPT ![e] = "handled"]
    /\ IF Resolved(resp[e])
       THEN /\ result' = ThenHandler(result, projects[e])
            /\ chain' = [chain EXCEPT ![e] = "fulfilling"]
       ELSE IF CatchThrows(resp[e])
       THEN /\ result' = result
            /\ chain' = [chain EXCEPT ![e] = "rejecting"]
       ELSE /\ result' = CatchHandler(result, projects[e], resp[e])
            /\ chain' = [chain EXCEPT ![e] = "fulfilling"]
    /\ UNCHANGED <<projects, hasBar, callState, launched, posts, resp, arrived, bar, retval>>

\* lines 107-111: the finally callback of e runs and the promise pushed on
\* migrations settles the way the catch promise did
Finally(e) ==
    /\ pc[e] = "handled"
    /\ pc' = [pc EXCEPT ![e] = "finalized"]
    /\ bar' = IF hasBar THEN Append(bar, [op |-> "increment", total |-> 1]) ELSE bar
    /\ chain' = [chain EXCEPT ![e] = IF @ = "rejecting" THEN "rejected" ELSE "fulfilled"]
    /\ UNCHANGED <<projects, hasBar, callState, launched, posts, resp, arrived, result, retval>>

\* line 115: Promise.all rejects with the first rejection among its promises;
\* the await throws and the call ends without reaching lines 117-122
AwaitThrows ==
    /\ callState = "awaiting"
    /\ \E e \in Entities : chain[e] = "rejected"
    /\ callState' = "thrown"
    /\ UNCHANGED <<projects, hasBar, launched, posts, pc, resp, arrived, chain, result, bar, retval>>

\* lines 115-122: every promise is fulfilled; the reporter is stopped and the
\* result returned
AwaitReturns ==
    /\ callState = "awaiting"
    /\ \A e \in Entities : chain[e] = "fulfilled"
    /\ callState' = "returned"
    /\ bar' = IF hasBar THEN Append(bar, [op |-> "stop", total |-> 0]) ELSE bar
    /\ retval' = result
    /\ UNCHANGED <<projects, hasBar, launched, posts, pc, resp, arrived, chain, result>>

\* the listing and the sort take no part in Spec
LIdle ==
    /\ listPc = "idle"
    /\ nextPage = "undefined"
    /\ requests = <<>>
    /\ responses = <<>>
    /\ listFailed = FALSE
    /\ listed = <<>>
    /\ mainPc = "idle"
    /\ selected = <<>>
    /\ teaRequests = <<>>
    /\ console = <<>>

SIdle ==
    /\ engine = "none"
    /\ sortIn = <<>>
    /\ sortOut = <<>>
    /\ sortAgain = <<>>
    /\ sortPc = "idle"

RIdle ==
    /\ fullPath = <<>>
    /\ repoOut = <<>>
    /\ repoPc = "idle"

NoFetch == [kind |-> "none", keys |-> <<>>]

KIdle ==
    /\ kProjects = <<>>
    /\ kHasBar = FALSE
    /\ kState = "idle"
    /\ kDone = 0
    /\ kFetches = <<>>
    /\ kFetch = NoFetch
    /\ kAttaches = <<>>
    /\ kResult = EmptyResult
    /\ kBar = <<>>
    /\ kRetval = EmptyResult

\* a promise: pending, fulfilled with a list of owners, or rejected with an
\* Error whose message is a sequence of text pieces
PendingPromise == [state |-> "pending", value |-> <<>>, message |-> <<>>]

NoUser == [id |-> 0, email |-> "", full_name |-> "", username |-> ""]

NoGet == [state |-> "none", user |-> NoUser, orgs |-> <<>>, cause |-> ""]

OIdle ==
    /\ oPc = "idle"
    /\ oRequests = <<>>
    /\ oUserGet = NoGet
    /\ oOrgsGet = NoGet
    /\ oUser = PendingPromise
    /\ oOrgs = PendingPromise
    /\ oResult = PendingPromise
    /\ oSettled = <<>>

\* the state of a run that has not reached the confirmation prompt
CIdle ==
    /\ runPc = "idle"
    /\ optIn = FALSE

Init == MInit /\ LIdle /\ SIdle /\ RIdle /\ KIdle /\ OIdle /\ CIdle

Next ==
    \/ Start /\ UNCHANGED <<lvars, svars, rvars, kvars, ovars, cvars>>
    \/ Launch /\ UNCHANGED <<lvars, svars, rvars, kvars, ovars, cvars>>
    \/ Suspend /\ UNCHANGED <<lvars, svars, rvars, kvars, ovars, cvars>>
    \/ \E e \in Entities : Respond(e) /\ UNCHANGED <<lvars, svars, rvars, kvars, ovars, cvars>>
    \/ \E e \in Entities : Handle(e) /\ UNCHANGED <<lvars, svars, rvars, kvars, ovars, cvars>>
    \/ \E e \in Entities : Finally(e) /\ UNCHANGED <<lvars, svars, rvars, kvars, ovars, cvars>>
    \/ AwaitThrows /\ UNCHANGED <<lvars, svars, rvars, kvars, ovars, cvars>>
    \/ AwaitReturns /\ UNCHANGED <<lvars, svars, rvars, kvars, ovars, cvars>>

Spec == Init /\ [][Next]_vars

(***************************************************************************)
(* Claims about Migration.migrateProjects, checked under Spec              *)
(***************************************************************************)
Processed(e) == pc[e] \in {"handled", "finalized"}

Buckets(res, p) == Count(res.success, p) + Count(res.skipped, p) + Count(res.failed, p)

ErrorLinesOf(res, p) == Cardinality({i \in DOMAIN res.errors : res.errors[i].project = p})

\* C1: when migrateProjects returns, every input entity is in exactly one of
\* success, skipped and failed, exactly once, and the three lengths add up to
\* the length of the input.
C1_ExactlyOneBucket ==
    callState = "returned" =>
        /\ \A e \in Entities : Buckets(retval, projects[e]) = 1
        /\ Len(retval.success) + Len(retval.skipped) + Len(retval.failed) = Len(projects)

C1_Witness ==
    /\ callState = "returned"
    /\ Len(projects) = 3
    /\ Len(retval.success) = 1
    /\ Len(retval.skipped) = 1
    /\ Len(retval.failed) = 1

\* C2: a failed create call, by a non-2xx response or by a transport failure
\* without a response, is recorded for its entity only and never aborts the
\* batch: migrateProjects does not throw, and every entity whose call failed
\* other than by a conflict is recorded in failed.
C2_FailureIsolated ==
    /\ callState # "thrown"
    /\ \A e \in Entities :
          (Processed(e) /\ ~Resolved(resp[e]) /\ resp[e].status # Conflict)
              => Count(result.failed, projects[e]) = 1

\* C3: a 409 response to an entity's create call puts the entity in skipped,
\* never in failed, and adds no error line.
C3_ConflictIsSkipped ==
    \A e \in Entities :
        (Processed(e) /\ resp[e].hasResponse /\ resp[e].status = Conflict) =>
            /\ Count(result.skipped, projects[e]) = 1
            /\ Count(result.failed, projects[e]) = 0
            /\ Count(result.success, projects[e]) = 0
            /\ ErrorLinesOf(result, projects[e]) = 0

C3_Witness ==
    \E e \in Entities :
        /\ pc[e] = "finalized"
        /\ resp[e].hasResponse
        /\ resp[e].status = Conflict
        /\ Len(result.failed) > 0

\* C4: each create call's outcome updates exactly one collection: success on
\* a success response, skipped on 409, failed plus exactly one error line on
\* any other failure; at return |errors| = |failed|.
C4_OneCollectionPerOutcome ==
    /\ \A e \in Entities :
          Processed(e) =>
              /\ Buckets(result, projects[e]) = 1
              /\ Resolved(resp[e]) => Count(result.success, projects[e]) = 1
              /\ (resp[e].hasResponse /\ resp[e].status = Conflict)
                    => Count(result.skipped, projects[e]) = 1
              /\ (~Resolved(resp[e]) /\ resp[e].status # Conflict)
                    => /\ Count(result.failed, projects[e]) = 1
                       /\ ErrorLinesOf(result, projects[e]) = 1
    /\ callState = "returned" => Len(retval.errors) = Len(retval.failed)

Ops(b, op) == {i \in DOMAIN b : b[i].op = op}

\* C5: the reporter receives exactly one start, with the entity count, before
\* any outcome is processed, one increment per settled create call, and, once
\* the call has completed, exactly one stop, after all N increments.
C5_ReporterProtocol ==
    hasBar =>
        /\ callState # "idle" =>
              /\ Ops(bar, "start") = {1}
              /\ bar[1].total = Len(projects)
        /\ Cardinality(Ops(bar, "increment")) = Cardinality({e \in Entities : pc[e] = "finalized"})
        /\ callState \in {"returned", "thrown"} =>
              /\ Cardinality(Ops(bar, "stop")) = 1
              /\ Cardinality(Ops(bar, "increment")) = Len(projects)
              /\ bar[Len(bar)].op = "stop"

\* C6: when the call completes, by returning or otherwise, every launched
\* create call has settled and its completion handlers have run: none is in
\* flight and none runs afterwards.
C6_SettledBeforeComplete ==
    callState \in {"returned", "thrown"} => \A e \in Entities : pc[e] = "finalized"


(***************************************************************************)
(* Strings.  A string is a sequence of one-character strings.              *)
(***************************************************************************)
\* the characters of the model, in collation order
Chars == <<" ", "/", "a", "b">>

Rank(c) == CHOOSE i \in DOMAIN Chars : Chars[i] = c

Sign(n) == IF n < 0 THEN -1 ELSE IF n > 0 THEN 1 ELSE 0

RECURSIVE LocaleCompareFrom(_, _, _)
LocaleCompareFrom(x, y, i) ==
    IF i > Len(x) /\ i > Len(y) THEN 0
    ELSE IF i > Len(x) THEN -1
    ELSE IF i > Len(y) THEN 1
    ELSE IF x[i] # y[i] THEN Sign(Rank(x[i]) - Rank(y[i]))
    ELSE LocaleCompareFrom(x, y, i + 1)

\* String.prototype.localeCompare
LocaleCompare(x, y) == LocaleCompareFrom(x, y, 1)

\* the separator of a fully-qualified name
Separator == <<" ", "/", " ">>

StartsAt(s, i, sep) ==
    /\ i + Len(sep) - 1 <= Len(s)
    /\ \A k \in 1..Len(sep) : s[i + k - 1] = sep[k]

RECURSIVE SplitFrom(_, _, _, _)
SplitFrom(s, sep, i, cur) ==
    IF i > Len(s) THEN <<cur>>
    ELSE IF StartsAt(s, i, sep) THEN <<cur>> \o SplitFrom(s, sep, i + Len(sep), <<>>)
    ELSE SplitFrom(s, sep, i + 1, Append(cur, s[i]))

\* String.prototype.split(separator)
Split(s, sep) == SplitFrom(s, sep, 1, <<>>)

(***************************************************************************)
(* GitLab.listProjects: the comparator and the sort                        *)
(***************************************************************************)
ComparePartsUnordered(aParts, bParts, i) == IF aParts # bParts THEN 1 ELSE 0

RECURSIVE CompareParts(_, _, _)
CompareParts(aParts, bParts, i) ==
    IF i > Len(aParts) THEN 0
    ELSE IF Len(bParts) < i THEN 1
    ELSE IF aParts[i] # bParts[i] THEN LocaleCompare(aParts[i], bParts[i])
    ELSE CompareParts(aParts, bParts, i + 1)

\* the comparator handed to projects.sort
Compare(a, b) == CompareParts(Split(a.fullName, Separator), Split(b.fullName, Separator), 1)

\* The runtime's Array.prototype.sort.  The comparator is not a consistent
\* comparison function (Compare(a, b) = 0 and Compare(b, a) = 1 when a's
\* segments are a proper prefix of b's), so the order is the implementation's:
\*   "insertion"  V8 before 7.0 (Node <= 10), arrays of at most 10 elements
\*   "timsort"    V8 from 7.0 (Node >= 11), arrays shorter than 64 elements
Engines == {"insertion", "timsort"}

InsertAt(a, from, to) ==
    \* the element at index from moved to index to <= from
    [k \in DOMAIN a |->
        IF k < to \/ k > from THEN a[k]
        ELSE IF k = to THEN a[from]
        ELSE a[k - 1]]

RECURSIVE LinearPos(_, _, _)
LinearPos(a, element, j) ==
    IF j >= 1 /\ Compare(a[j], element) > 0 THEN LinearPos(a, element, j - 1) ELSE j + 1

RECURSIVE InsertionSortFrom(_, _)
InsertionSortFrom(a, i) ==
    IF i > Len(a) THEN a
    ELSE InsertionSortFrom(InsertAt(a, i, LinearPos(a, a[i], i - 1)), i + 1)

InsertionSort(a) == InsertionSortFrom(a, 2)

RECURSIVE RunEnd(_, _, _)
RunEnd(a, descending, idx) ==
    \* the last index of the run that starts at 1, having compared up to idx - 1
    IF idx > Len(a) THEN Len(a)
    ELSE LET order == Compare(a[idx], a[idx - 1])
         IN  IF (descending /\ order >= 0) \/ (~descending /\ order < 0)
             THEN idx - 1
             ELSE RunEnd(a, descending, idx + 1)

Reversed(a, n) == [k \in DOMAIN a |-> IF k <= n THEN a[n + 1 - k] ELSE a[k]]

RECURSIVE BinaryPos(_, _, _, _)
BinaryPos(a, pivot, left, right) ==
    IF left >= right THEN left
    ELSE LET mid == left + ((right - left) \div 2)
         IN  IF Compare(pivot, a[mid]) < 0
             THEN BinaryPos(a, pivot, left, mid)
             ELSE BinaryPos(a, pivot, mid + 1, right)

RECURSIVE BinaryInsertionSort(_, _)
BinaryInsertionSort(a, start) ==
    IF start > Len(a) THEN a
    ELSE BinaryInsertionSort(InsertAt(a, start, BinaryPos(a, a[start], 1, start)), start + 1)

TimSort(a) ==
    IF Len(a) < 2 THEN a
    ELSE LET descending == Compare(a[2], a[1]) < 0
             run == RunEnd(a, descending, 3)
             made == IF descending THEN Reversed(a, run) ELSE a
         IN  BinaryInsertionSort(made, run + 1)

\* projects.sort((a, b) => ...)
Sort(e, a) == IF e = "insertion" THEN InsertionSort(a) ELSE TimSort(a)

(***************************************************************************)
(* SpecSort: projects.sort applied to a bounded array                      *)
(***************************************************************************)
\* fully-qualified names: "a", "b", "a / a", "a / b", "a / b / a"
SortNames ==
    { <<"a">>, <<"b">>,
      <<"a", " ", "/", " ", "a">>,
      <<"a", " ", "/", " ", "b">>,
      <<"a", " ", "/", " ", "b", " ", "/", " ", "a">> }

SortInputs ==
    UNION { { [i \in 1..n |-> [id |-> i, fullName |-> f[i]]] : f \in [1..n -> SortNames] }
            : n \in 0..MaxSortLen }

SInit ==
    /\ engine \in Engines
    /\ sortIn \in SortInputs
    /\ sortOut = <<>>
    /\ sortAgain = <<>>
    /\ sortPc = "unsorted"

\* line 68: projects.sort(...)
SortOnce ==
    /\ sortPc = "unsorted"
    /\ sortOut' = Sort(engine, sortIn)
    /\ sortPc' = "sorted"
    /\ UNCHANGED <<engine, sortIn, sortAgain>>

\* the same sort applied to its own output
SortAgain ==
    /\ sortPc = "sorted"
    /\ sortAgain' = Sort(engine, sortOut)
    /\ sortPc' = "resorted"
    /\ UNCHANGED <<engine, sortIn, sortOut>>

InitSort == MIdle /\ LIdle /\ SInit /\ RIdle /\ KIdle /\ OIdle /\ CIdle

NextSort ==
    \/ SortOnce /\ UNCHANGED <<mvars, lvars, rvars, kvars, ovars, cvars>>
    \/ SortAgain /\ UNCHANGED <<mvars, lvars, rvars, kvars, ovars, cvars>>

SpecSort == InitSort /\ [][NextSort]_vars

(***************************************************************************)
(* GitLab.getPaged, GitLab.listProjects and the CLI's main                 *)
(***************************************************************************)
Digits == <<"0", "1", "2", "3", "4", "5", "6", "7", "8", "9">>

IsDigit(c) == \E i \in DOMAIN Digits : Digits[i] = c

DigitValue(c) == (CHOOSE i \in DOMAIN Digits : Digits[i] = c) - 1

RECURSIVE SkipSpaces(_, _)
SkipSpaces(s, i) == IF i <= Len(s) /\ s[i] = " " THEN SkipSpaces(s, i + 1) ELSE i

RECURSIVE DigitsFrom(_, _, _)
DigitsFrom(s, i, acc) ==
    \* <<value of the digits read from i on, number of digits read>>
    IF i <= Len(s) /\ IsDigit(s[i])
    THEN DigitsFrom(s, i + 1, <<acc[1] * 10 + DigitValue(s[i]), acc[2] + 1>>)
    ELSE acc

NaN == [kind |-> "NaN", value |-> 0]

UndefinedValue == [kind |-> "undefined", value |-> 0]

Number(n) == [kind |-> "number", value |-> n]

\* a response header: absent, or present with a text
Absent == [present |-> FALSE, text |-> <<>>]

Header(t) == [present |-> TRUE, text |-> t]

\* Number.parseInt(response.headers['x-next-page']): leading blanks, an
\* optional sign, then the longest run of digits; NaN when there is none,
\* and for the string "undefined" of an absent header
ParseInt(h) ==
    IF ~h.present THEN NaN
    ELSE LET s == h.text
             i == SkipSpaces(s, 1)
             negative == i <= Len(s) /\ s[i] = "-"
             j == IF i <= Len(s) /\ s[i] \in {"-", "+"} THEN i + 1 ELSE i
             d == DigitsFrom(s, j, <<0, 0>>)
         IN  IF d[2] = 0 THEN NaN
             ELSE Number(IF negative THEN 0 - d[1] ELSE d[1])

RECURSIVE NatToString(_)
NatToString(n) ==
    IF n < 10 THEN <<Digits[n + 1]>>
    ELSE Append(NatToString(n \div 10), Digits[(n % 10) + 1])

\* nextPage.toString()
NumberToString(n) == IF n < 0 THEN <<"-">> \o NatToString(0 - n) ELSE NatToString(n)

\* nextPage !== undefined && isNaN(nextPage) === false
HasNextPage(np) == np.kind = "number"

NextUrlNoPage(url, np) == [path |-> url, hasPage |-> FALSE, page |-> <<>>]

\* lines 104-113: the url of the next request
NextUrl(url, np) ==
    IF HasNextPage(np)
    THEN [path |-> url, hasPage |-> TRUE, page |-> NumberToString(np.value)]
    ELSE [path |-> url, hasPage |-> FALSE, page |-> <<>>]

\* the records the source can put on the page answering the i-th request
CatalogueNames ==
    << <<"b">>,
       <<"a", " ", "/", " ", "b">>,
       <<"a">>,
       <<"a", " ", "/", " ", "a">> >>

RawRecord(i) ==
    [id |-> i, name_with_namespace |-> CatalogueNames[((i - 1) % Len(CatalogueNames)) + 1]]

PageBodies(i) == {<<>>, <<RawRecord(i)>>}

\* what the source can put in the next-page header
HeaderChoices ==
    {Absent, Header(<<>>), Header(<<"a">>), Header(<<"0">>), Header(<<"-", "1">>),
     Header(<<"2">>), Header(<<"3">>), Header(<<"4">>)}

\* lines 54-64: the projection of a raw record
Project(raw) == [id |-> raw.id, fullName |-> raw.name_with_namespace]

RECURSIVE MapAll(_)
MapAll(resps) ==
    \* lines 50-66: every record of every response, in order
    IF resps = <<>> THEN <<>>
    ELSE [k \in DOMAIN Head(resps).data |-> Project(Head(resps).data[k])] \o MapAll(Tail(resps))

\* lines 49-85: listProjects once getPaged has returned its responses
ListProjectsReturns(e, resps) == Sort(e, MapAll(resps))

ListProjectsKeepsFetched(e, resps) == Sort(e, MapAll(resps))

\* lines 86-90: listProjects when getPaged threw with resps already fetched
ListProjectsCatch(e, resps) == <<>>

LInit ==
    /\ listPc = "request"
    /\ nextPage = UndefinedValue
    /\ requests = <<>>
    /\ responses = <<>>
    /\ listFailed = FALSE
    /\ listed = <<>>
    /\ mainPc = "listing"
    /\ selected = <<>>
    /\ teaRequests = <<>>
    /\ console = <<>>

\* lines 104-115: getPaged issues the next GET
IssueRequest ==
    /\ listPc = "request"
    /\ Len(requests) < MaxRequests
    /\ requests' = Append(requests, NextUrl("/projects", nextPage))
    /\ listPc' = "waiting"
    /\ UNCHANGED <<nextPage, responses, listFailed, listed, mainPc, selected, teaRequests, console>>

\* lines 115-119: a page arrives; the loop goes on or getPaged returns and
\* listProjects maps, sorts and returns (lines 50-85)
ReceivePage ==
    /\ listPc = "waiting"
    /\ \E h \in HeaderChoices, body \in PageBodies(Len(requests)) :
          LET np == ParseInt(h)
              rs == Append(responses, [header |-> h, data |-> body])
          IN  /\ nextPage' = np
              /\ responses' = rs
              /\ IF HasNextPage(np)
                 THEN /\ listPc' = "request"
                      /\ listed' = listed
                 ELSE /\ listPc' = "returned"
                      /\ listed' = ListProjectsReturns(engine, rs)
    /\ UNCHANGED <<requests, listFailed, mainPc, selected, teaRequests, console>>

\* line 115 throws (a failed request); lines 86-90 log and return []
RequestFails ==
    /\ listPc = "waiting"
    /\ listFailed' = TRUE
    /\ listed' = ListProjectsCatch(engine, responses)
    /\ listPc' = "returned"
    /\ console' = Append(console, "Error: Could not fetch projects from GitLab instance.")
    /\ UNCHANGED <<nextPage, requests, responses, mainPc, selected, teaRequests>>

\* index.ts lines 90-98: nothing listed ends the run; otherwise listOwners
\* issues its two GETs
MainAfterList ==
    /\ mainPc = "listing"
    /\ listPc = "returned"
    /\ IF Len(listed) = 0
       THEN /\ console' = Append(console, "No projects found to migrate.")
            /\ mainPc' = "done"
            /\ teaRequests' = teaRequests
       ELSE /\ console' = console
            /\ mainPc' = "owners"
            /\ teaRequests' = teaRequests \o <<[op |-> "GET /user", project |-> 0],
                                               [op |-> "GET /user/orgs", project |-> 0]>>
    /\ UNCHANGED <<listPc, nextPage, requests, responses, listFailed, listed, selected>>

\* index.ts line 98: listOwners resolves, or rejects and main ends
OwnersSettle ==
    /\ mainPc = "owners"
    /\ \E ok \in BOOLEAN : mainPc' = IF ok THEN "prompt" ELSE "failed"
    /\ UNCHANGED <<listPc, nextPage, requests, responses, listFailed, listed, selected, teaRequests, console>>

Selections(all) ==
    { [k \in 1..Cardinality(keep) |->
          all[CHOOSE i \in keep : Cardinality({j \in keep : j <= i}) = k]]
      : keep \in (SUBSET DOMAIN all) \ {{}} }

\* index.ts lines 100-163: the operator selects at least one project and
\* confirms or not; on confirmation migrateProjects issues one POST per
\* selected project (migration.ts lines 73-113)
PromptAndMigrate ==
    /\ mainPc = "prompt"
    /\ \E sel \in Selections(listed), continue \in BOOLEAN :
          IF continue
          THEN /\ selected' = sel
               /\ mainPc' = "migrating"
               /\ teaRequests' = teaRequests \o
                     [k \in DOMAIN sel |-> [op |-> "POST /repos/migrate", project |-> sel[k].id]]
          ELSE /\ selected' = selected
               /\ mainPc' = "done"
               /\ teaRequests' = teaRequests
    /\ UNCHANGED <<listPc, nextPage, requests, responses, listFailed, listed, console>>

InitList ==
    /\ MIdle
    /\ LInit
    /\ engine \in Engines
    /\ sortIn = <<>>
    /\ sortOut = <<>>
    /\ sortAgain = <<>>
    /\ sortPc = "idle"
    /\ RIdle
    /\ KIdle
    /\ OIdle
    /\ CIdle

NextList ==
    \/ IssueRequest /\ UNCHANGED <<mvars, svars, rvars, kvars, ovars, cvars>>
    \/ ReceivePage /\ UNCHANGED <<mvars, svars, rvars, kvars, ovars, cvars>>
    \/ RequestFails /\ UNCHANGED <<mvars, svars, rvars, kvars, ovars, cvars>>
    \/ MainAfterList /\ UNCHANGED <<mvars, svars, rvars, kvars, ovars, cvars>>
    \/ OwnersSettle /\ UNCHANGED <<mvars, svars, rvars, kvars, ovars, cvars>>
    \/ PromptAndMigrate /\ UNCHANGED <<mvars, svars, rvars, kvars, ovars, cvars>>

SpecList == InitList /\ [][NextList]_vars


(***************************************************************************)
(* Claims about the paged listing, checked under SpecList                  *)
(***************************************************************************)
\* the run answered k pages with next-page headers 2, 3, ..., k, then none
PagesTwoToK(resps) ==
    /\ Len(resps) >= 1
    /\ \A i \in 1..(Len(resps) - 1) : resps[i].header = Header(NumberToString(i + 1))
    /\ resps[Len(resps)].header = Absent

SameRecords(s, t) ==
    \* s and t hold the same elements the same number of times
    /\ Len(s) = Len(t)
    /\ \A x \in Range(s) \cup Range(t) : Count(s, x) = Count(t, x)

RECURSIVE RawRecords(_)
RawRecords(resps) ==
    IF resps = <<>> THEN <<>> ELSE Head(resps).data \o RawRecords(Tail(resps))

\* C7: when the source answers k pages with next-page headers 2, ..., k and
\* then none, exactly k GETs are issued in order, the first without a page
\* parameter and the i-th with page=i on the same endpoint, and the listing
\* holds exactly the mapped records of all k pages.
C7_PagedListing ==
    (listPc = "returned" /\ ~listFailed /\ PagesTwoToK(responses)) =>
        /\ Len(requests) = Len(responses)
        /\ requests[1] = [path |-> "/projects", hasPage |-> FALSE, page |-> <<>>]
        /\ \A i \in 2..Len(requests) :
              requests[i] = [path |-> "/projects", hasPage |-> TRUE, page |-> NumberToString(i)]
        /\ SameRecords(listed,
                       [k \in DOMAIN RawRecords(responses) |->
                           [id |-> RawRecords(responses)[k].id,
                            fullName |-> RawRecords(responses)[k].name_with_namespace]])

C7_Witness ==
    /\ listPc = "returned"
    /\ ~listFailed
    /\ PagesTwoToK(responses)
    /\ Len(responses) = 3
    /\ Len(requests) = 3
    /\ Len(listed) = 3

ValidPositiveInteger(h) ==
    /\ h.present
    /\ Len(h.text) > 0
    /\ \A k \in DOMAIN h.text : IsDigit(h.text[k])
    /\ \E k \in DOMAIN h.text : h.text[k] # "0"

\* C8: after a response whose next-page indicator is absent or is not a valid
\* positive integer, no further listing request is issued.
C8_PaginationEnds ==
    \A i \in DOMAIN responses :
        ~ValidPositiveInteger(responses[i].header) => Len(requests) <= i

\* C9: when a listing request fails, listProjects returns an empty sequence,
\* whatever was fetched before, and the CLI reports that no projects were
\* found and issues no owner lookup and no migration request.
C9_ListingFailureIsEmpty ==
    listFailed =>
        /\ listPc = "returned"
        /\ listed = <<>>
        /\ teaRequests = <<>>
        /\ mainPc \in {"listing", "done"}
        /\ mainPc = "done" => console[Len(console)] = "No projects found to migrate."

C9_Witness ==
    /\ listFailed
    /\ Len(requests) = 3
    /\ Len(RawRecords(responses)) = 2
    /\ mainPc = "done"


(***************************************************************************)
(* Claims about the sort, checked under SpecSort                           *)
(***************************************************************************)
IsProperPrefix(s, t) == Len(s) < Len(t) /\ \A k \in 1..Len(s) : s[k] = t[k]

Deeper(x, y) ==
    \* y's name extends x's name by further " / " segments
    IsProperPrefix(Split(x.fullName, Separator), Split(y.fullName, Separator))

\* C10: whenever the sorted collection holds a name and a deeper name that
\* extends it by further segments, the shorter one comes before the deeper one.
C10_ShallowBeforeDeep ==
    sortPc = "sorted" =>
        \A i, j \in DOMAIN sortOut : Deeper(sortOut[i], sortOut[j]) => i < j

\* C11: the sort by fully-qualified name is idempotent: sorting the sorted
\* output again with the same comparator yields the same sequence.
C11_SortIdempotent == sortPc = "resorted" => sortAgain = sortOut

C11_Witness ==
    /\ sortPc = "resorted"
    /\ Len(sortIn) = 3
    /\ sortOut # sortIn
    /\ \E i, j \in DOMAIN sortOut : Deeper(sortOut[i], sortOut[j])

(***************************************************************************)
(* Migration.repoName (the same code as Gitea.repoName)                    *)
(***************************************************************************)
\* String.prototype.indexOf(c), counted from 0; -1 when c does not occur
IndexOf(s, c) ==
    IF \E i \in DOMAIN s : s[i] = c
    THEN (CHOOSE i \in DOMAIN s : s[i] = c /\ \A j \in 1..(i - 1) : s[j] # c) - 1
    ELSE -1

\* String.prototype.substr(start), start counted from 0
Substr(s, start) == SubSeq(s, start + 1, Len(s))

RECURSIVE ReplaceEvery(_, _, _)
ReplaceEvery(s, c, d) ==
    IF s = <<>> THEN <<>>
    ELSE <<IF Head(s) = c THEN d ELSE Head(s)>> \o ReplaceEvery(Tail(s), c, d)

\* String.prototype.replace(c, d) with a string pattern: the first occurrence
Replace(s, c, d) ==
    LET i == IndexOf(s, c)
    IN  IF i < 0 THEN s ELSE [k \in DOMAIN s |-> IF k = i + 1 THEN d ELSE s[k]]

\* migration.ts line 242
RepoName(path) == Replace(Substr(path, IndexOf(path, "/") + 1), "/", "-")

\* path components
SegmentNames == {<<"g">>, <<"s">>, <<"p">>}

RECURSIVE Join(_)
Join(segs) ==
    IF Len(segs) = 1 THEN segs[1] ELSE segs[1] \o <<"/">> \o Join(Tail(segs))

\* fully-qualified paths: a namespace of one or more components and a project
FullPaths == { Join(f) : f \in UNION { [1..n -> SegmentNames] : n \in 2..MaxSegments } }

RInit ==
    /\ fullPath \in FullPaths
    /\ repoOut = <<>>
    /\ repoPc = "call"

\* repoName(project) is called
CallRepoName ==
    /\ repoPc = "call"
    /\ repoOut' = RepoName(fullPath)
    /\ repoPc' = "done"
    /\ UNCHANGED fullPath

InitRepo == MIdle /\ LIdle /\ SIdle /\ RInit /\ KIdle /\ OIdle /\ CIdle

NextRepo == CallRepoName /\ UNCHANGED <<mvars, lvars, svars, kvars, ovars, cvars>>

SpecRepo == InitRepo /\ [][NextRepo]_vars

\* C12: the destination name is the path with its first component and first
\* separator removed and every remaining "/" replaced by "-": it holds no "/".
C12_RepoName ==
    repoPc = "done" =>
        /\ repoOut = ReplaceEvery(SubSeq(fullPath, IndexOf(fullPath, "/") + 2, Len(fullPath)), "/", "-")
        /\ \A k \in DOMAIN repoOut : repoOut[k] # "/"

(***************************************************************************)
(* Migration.migrateKeys                                                   *)
(***************************************************************************)
\* HTTP status of "key already attached" on POST /repos/{owner}/{repo}/keys
KeyExists == 422

\* how a key-attach POST can settle
AttachSettlements ==
    [hasResponse : {TRUE}, status : {201, KeyExists, 500}]
        \cup {[hasResponse |-> FALSE, status |-> 0]}

\* the deploy keys the source answers with: response.data
RawKeys(n) == [k \in 1..n |-> [id |-> k, can_push |-> (k = 1)]]

\* lines 160-165: the projection of a raw key
Key(raw) == [id |-> raw.id, readOnly |-> (raw.can_push = FALSE)]

\* how a deploy-key GET can settle: the keys, an error response, or a
\* transport failure without a response
FetchSettlements ==
    {[ok |-> TRUE, hasResponse |-> TRUE, status |-> 200, data |-> RawKeys(n)] : n \in 0..MaxKeys}
        \cup {[ok |-> FALSE, hasResponse |-> TRUE, status |-> 500, data |-> <<>>],
              [ok |-> FALSE, hasResponse |-> FALSE, status |-> 0, data |-> <<>>]}

\* lines 158-167: the then callback of the fetch
FetchThen(data) == [kind |-> "keys", keys |-> [k \in DOMAIN data |-> Key(data[k])]]

\* line 169: response.response.data on an error without a response: TypeError
FetchCatchThrows(r) == ~r.hasResponse

\* lines 168-178: the catch callback of the fetch
FetchCatch(res, p, r) ==
    [res EXCEPT !.errors = Append(@, ErrorLine(p, r)), !.failed = Append(@, p)]

\* lines 197-199: the then callback of a key-attach POST
AttachThen(res, p) == [res EXCEPT !.success = Append(@, p)]

\* line 201: response.response.status on an error without a response
AttachCatchThrows(r) == ~r.hasResponse

AttachCatchConflict(res, p, r) ==
    IF r.status = Conflict
    THEN [res EXCEPT !.skipped = Append(@, p)]
    ELSE [res EXCEPT !.errors = Append(@, ErrorLine(p, r)), !.failed = Append(@, p)]

\* lines 200-215: the catch callback of a key-attach POST
AttachCatch(res, p, r) ==
    IF r.status = KeyExists
    THEN [res EXCEPT !.skipped = Append(@, p)]
    ELSE [res EXCEPT !.errors = Append(@, ErrorLine(p, r)), !.failed = Append(@, p)]

\* lines 189-217: one POST per key of the entity, pushed on migrations
LaunchesWithRetry(p, keys) ==
    [k \in 1..(2 * Len(keys)) |->
        [project |-> p, key |-> keys[((k - 1) % Len(keys)) + 1].id, state |-> "inflight", resp |-> Pending]]

Launches(p, keys) ==
    [k \in DOMAIN keys |-> [project |-> p, key |-> keys[k].id, state |-> "inflight", resp |-> Pending]]

IssueAllFetches(fetches, ps, done) ==
    fetches \o [k \in 1..(Len(ps) - done) |-> [project |-> ps[done + k], state |-> "inflight", outcome |-> "pending", keys |-> 0]]

\* lines 148-157: the loop issues the GET of the next entity and awaits it
IssueFetch(fetches, ps, done) ==
    Append(fetches, [project |-> ps[done + 1], state |-> "inflight", outcome |-> "pending", keys |-> 0])

Increment(b, has) == IF has THEN Append(b, [op |-> "increment", total |-> 1]) ELSE b

NoIncrement(b, has) == b

\* lines 181-187: the branch taken when keys is empty
SkipEntity(b, has) == Increment(b, has)

AttachesSettledOrNot(att) == TRUE

\* line 224: Promise.all(migrations) resolves once every promise is fulfilled
AllFulfilled(att) == \A i \in DOMAIN att : att[i].state = "fulfilled"

KInit ==
    /\ \E n \in 0..MaxKeyProjects : kProjects = [i \in 1..n |-> i]
    /\ kHasBar \in BOOLEAN
    /\ kState = "idle"
    /\ kDone = 0
    /\ kFetches = <<>>
    /\ kFetch = NoFetch
    /\ kAttaches = <<>>
    /\ kResult = EmptyResult
    /\ kBar = <<>>
    /\ kRetval = EmptyResult

\* lines 132-157: the call starts the reporter and issues the first fetch, or
\* reaches Promise.all at once when there is no entity
KStart ==
    /\ kState = "idle"
    /\ kBar' = IF kHasBar THEN Append(kBar, [op |-> "start", total |-> Len(kProjects)]) ELSE kBar
    /\ IF Len(kProjects) = 0
       THEN /\ kState' = "awaiting"
            /\ kFetches' = kFetches
       ELSE /\ kState' = "fetching"
            /\ kFetches' = IssueFetch(kFetches, kProjects, 0)
    /\ UNCHANGED <<kProjects, kHasBar, kDone, kFetch, kAttaches, kResult, kRetval>>

\* lines 156-178: the fetch settles and its then or catch callback runs (the
\* source holds at most MaxTotalKeys keys over all entities)
KFetchSettle ==
    /\ kState = "fetching"
    /\ kState' = "fetched"
    /\ \E r \in FetchSettlements :
          /\ Len(kAttaches) + Len(r.data) <= MaxTotalKeys
          /\ IF r.ok
             THEN /\ kFetch' = FetchThen(r.data)
                  /\ kResult' = kResult
             ELSE IF FetchCatchThrows(r)
             THEN /\ kFetch' = [kind |-> "threw", keys |-> <<>>]
                  /\ kResult' = kResult
             ELSE /\ kFetch' = [kind |-> "failed", keys |-> <<>>]
                  /\ kResult' = FetchCatch(kResult, kProjects[kDone + 1], r)
          /\ kFetches' = [kFetches EXCEPT ![Len(kFetches)] =
                             [@ EXCEPT !.state = "settled",
                                       !.outcome = kFetch'.kind,
                                       !.keys = Len(r.data)]]
    /\ UNCHANGED <<kProjects, kHasBar, kDone, kAttaches, kBar, kRetval>>

\* line 156: the awaited promise was rejected by its catch callback; the
\* await throws and the call ends
KLoopThrows ==
    /\ kState = "fetched"
    /\ kFetch.kind = "threw"
    /\ kState' = "thrown"
    /\ UNCHANGED <<kProjects, kHasBar, kDone, kFetches, kFetch, kAttaches, kResult, kBar, kRetval>>

\* lines 180-222, then 148-157 or 224: the rest of the iteration (no keys:
\* increment and continue; keys: launch their POSTs and increment), then the
\* next fetch is issued or the loop ends at Promise.all
KLoopStep ==
    /\ kState = "fetched"
    /\ kFetch.kind # "threw"
    /\ IF Len(kFetch.keys) = 0
       THEN /\ kAttaches' = kAttaches
            /\ kBar' = SkipEntity(kBar, kHasBar)
       ELSE /\ kAttaches' = kAttaches \o Launches(kProjects[kDone + 1], kFetch.keys)
            /\ kBar' = Increment(kBar, kHasBar)
    /\ kDone' = kDone + 1
    /\ kFetch' = NoFetch
    /\ IF kDone + 1 < Len(kProjects)
       THEN /\ kState' = "fetching"
            /\ kFetches' = IssueFetch(kFetches, kProjects, kDone + 1)
       ELSE /\ kState' = "awaiting"
            /\ kFetches' = kFetches
    /\ UNCHANGED <<kProjects, kHasBar, kResult, kRetval>>

\* lines 191-215: a key-attach POST settles and its then or catch callback
\* runs; callbacks run only while the call is suspended
KAttachSettle(i) ==
    /\ kState \in {"fetching", "awaiting", "thrown"}
    /\ kAttaches[i].state = "inflight"
    /\ \E r \in AttachSettlements :
          IF Resolved(r)
          THEN /\ kResult' = AttachThen(kResult, kAttaches[i].project)
               /\ kAttaches' = [kAttaches EXCEPT ![i].state = "fulfilled", ![i].resp = r]
          ELSE IF AttachCatchThrows(r)
          THEN /\ kResult' = kResult
               /\ kAttaches' = [kAttaches EXCEPT ![i].state = "rejected", ![i].resp = r]
          ELSE /\ kResult' = AttachCatch(kResult, kAttaches[i].project, r)
               /\ kAttaches' = [kAttaches EXCEPT ![i].state = "fulfilled", ![i].resp = r]
    /\ UNCHANGED <<kProjects, kHasBar, kState, kDone, kFetches, kFetch, kBar, kRetval>>

\* line 224: Promise.all rejects with a rejected promise; the await throws
KAwaitThrows ==
    /\ kState = "awaiting"
    /\ \E i \in DOMAIN kAttaches : kAttaches[i].state = "rejected"
    /\ kState' = "thrown"
    /\ UNCHANGED <<kProjects, kHasBar, kDone, kFetches, kFetch, kAttaches, kResult, kBar, kRetval>>

\* lines 224-231: every promise is fulfilled; the reporter is stopped and the
\* result returned
KAwaitReturns ==
    /\ kState = "awaiting"
    /\ AllFulfilled(kAttaches)
    /\ kState' = "returned"
    /\ kBar' = IF kHasBar THEN Append(kBar, [op |-> "stop", total |-> 0]) ELSE kBar
    /\ kRetval' = kResult
    /\ UNCHANGED <<kProjects, kHasBar, kDone, kFetches, kFetch, kAttaches, kResult>>

InitKeys == MIdle /\ LIdle /\ SIdle /\ RIdle /\ KInit /\ OIdle /\ CIdle

NextKeys ==
    \/ KStart /\ UNCHANGED <<mvars, lvars, svars, rvars, ovars, cvars>>
    \/ KFetchSettle /\ UNCHANGED <<mvars, lvars, svars, rvars, ovars, cvars>>
    \/ KLoopThrows /\ UNCHANGED <<mvars, lvars, svars, rvars, ovars, cvars>>
    \/ KLoopStep /\ UNCHANGED <<mvars, lvars, svars, rvars, ovars, cvars>>
    \/ \E i \in DOMAIN kAttaches : KAttachSettle(i) /\ UNCHANGED <<mvars, lvars, svars, rvars, ovars, cvars>>
    \/ KAwaitThrows /\ UNCHANGED <<mvars, lvars, svars, rvars, ovars, cvars>>
    \/ KAwaitReturns /\ UNCHANGED <<mvars, lvars, svars, rvars, ovars, cvars>>

SpecKeys == InitKeys /\ [][NextKeys]_vars

(***************************************************************************)
(* Claims about Migration.migrateKeys, checked under SpecKeys              *)
(***************************************************************************)
\* the attach call i settles in this step with status st
AttachSettlesWith(i, st) ==
    /\ kAttaches[i].state = "inflight"
    /\ kAttaches'[i].state # "inflight"
    /\ kAttaches'[i].resp.hasResponse
    /\ kAttaches'[i].resp.status = st

\* C13: a 422 response to a key-attach call adds the key's entity to skipped
\* for that key, and for that key nothing to failed, errors or success.
C13_KeyExistsIsSkipped ==
    [][\A i \in DOMAIN kAttaches :
          AttachSettlesWith(i, KeyExists) =>
              /\ kResult'.skipped = Append(kResult.skipped, kAttaches[i].project)
              /\ kResult'.failed = kResult.failed
              /\ kResult'.errors = kResult.errors
              /\ kResult'.success = kResult.success]_vars

C13_Witness ==
    \E i, j \in DOMAIN kAttaches :
        /\ kAttaches[i].project = kAttaches[j].project
        /\ kAttaches[i].state = "fulfilled"
        /\ kAttaches[i].resp.status = KeyExists
        /\ kAttaches[j].state = "fulfilled"
        /\ kAttaches[j].resp.status = 500
        /\ Count(kResult.skipped, kAttaches[i].project) = 1
        /\ Count(kResult.failed, kAttaches[i].project) = 1

\* C14: the outer loop is sequential: fetches are issued in input order, the
\* fetch of an entity only once the fetch of the one before has resolved, so
\* at most one fetch is in flight at any time.
C14_FetchesSequential ==
    /\ Cardinality({i \in DOMAIN kFetches : kFetches[i].state = "inflight"}) <= 1
    /\ Len(kFetches) <= Len(kProjects)
    /\ \A i \in DOMAIN kFetches :
          /\ kFetches[i].project = kProjects[i]
          /\ i < Len(kFetches) => kFetches[i].state = "settled"

C14_Witness ==
    /\ Len(kFetches) = 2
    /\ kFetches[1].state = "settled"
    /\ kFetches[2].state = "inflight"
    /\ \E i \in DOMAIN kAttaches : kAttaches[i].state = "inflight"

KeyIncrements == Cardinality({i \in DOMAIN kBar : kBar[i].op = "increment"})

KErrorLinesOf(p) == Cardinality({i \in DOMAIN kResult.errors : kResult.errors[i].project = p})

\* C15: when the fetch of an entity fails, for any reason, one error line is
\* appended, the entity is added once to failed, progress is incremented
\* once, no key-attach request is issued for it and the loop goes on with the
\* next entity.
C15_FetchFailureRecorded ==
    \A i \in DOMAIN kFetches :
        kFetches[i].outcome \in {"failed", "threw"} =>
            /\ Count(kResult.failed, kFetches[i].project) = 1
            /\ KErrorLinesOf(kFetches[i].project) = 1
            /\ \A j \in DOMAIN kAttaches : kAttaches[j].project # kFetches[i].project
            /\ ~(kState = "thrown" /\ kDone < i)
            /\ (kHasBar /\ kDone >= i) => KeyIncrements = kDone

\* C18: an entity whose fetch succeeds with zero keys changes none of
\* success, skipped, failed and errors and causes no key-attach request; only
\* progress is incremented, once.
C18_NoKeysNoEffect ==
    [][/\ (kState = "fetching" /\ kState' = "fetched" /\ kFetch'.kind = "keys"
              /\ Len(kFetch'.keys) = 0)
          => (kResult' = kResult /\ kAttaches' = kAttaches /\ kBar' = kBar)
       /\ (kState = "fetched" /\ kFetch.kind = "keys" /\ Len(kFetch.keys) = 0
              /\ kState' # "fetched")
          => /\ kResult' = kResult
             /\ kAttaches' = kAttaches
             /\ kDone' = kDone + 1
             /\ kBar' = IF kHasBar
                        THEN Append(kBar, [op |-> "increment", total |-> 1])
                        ELSE kBar]_vars

C18_Witness ==
    /\ kHasBar
    /\ kDone = 2
    /\ kFetches[1].outcome = "keys"
    /\ kFetches[1].keys = 0
    /\ kFetches[2].keys = 2
    /\ KeyIncrements = 2

\* C19: progress counts entities: the reporter is started once with total N
\* and receives exactly N increments over the whole pass, one per entity on
\* each path (fetch failed, no keys, keys launched), whatever the number of
\* keys and whether or not the key-attach calls have settled.
C19_ProgressPerEntity ==
    kHasBar =>
        /\ kState # "idle" =>
              /\ {i \in DOMAIN kBar : kBar[i].op = "start"} = {1}
              /\ kBar[1].total = Len(kProjects)
        /\ KeyIncrements = kDone
        /\ kState \in {"awaiting", "returned", "thrown"} => KeyIncrements = Len(kProjects)

KeyStops == {i \in DOMAIN kBar : kBar[i].op = "stop"}

\* C20: migrateKeys returns and stops the reporter only after the loop has
\* finished and every launched key-attach call has settled: at return none is
\* in flight and no completion handler runs afterwards; stop is called once,
\* after the last increment.
C20_ReturnsAfterAllSettled ==
    /\ kState = "returned" =>
          /\ kDone = Len(kProjects)
          /\ \A i \in DOMAIN kAttaches : kAttaches[i].state # "inflight"
          /\ kRetval = kResult
    /\ kHasBar =>
          /\ Cardinality(KeyStops) <= 1
          /\ kState = "returned" <=> KeyStops # {}
          /\ KeyStops # {} =>
                /\ KeyStops = {Len(kBar)}
                /\ KeyIncrements = Len(kProjects)

C20_Witness ==
    /\ kState = "returned"
    /\ kHasBar
    /\ Len(kAttaches) = 4
    /\ Len(kRetval.success) > 0
    /\ Len(kRetval.skipped) > 0
    /\ Len(kRetval.failed) > 0

(***************************************************************************)
(* Gitea.listOwners, Gitea.userInfo, Gitea.listOrgs (src/src/gitea.ts)     *)
(*                                                                         *)
(* userInfo() and listOrgs() are async functions called one after the      *)
(* other without await: each runs synchronously up to its http.get, so     *)
(* both requests are issued before listOwners reaches Promise.all.  The    *)
(* callbacks that follow a response (the async function's continuation,    *)
(* Promise.all's reaction, the then callback) are microtasks and run       *)
(* before the next response is delivered: one action per response.         *)
(***************************************************************************)
Fulfilled(v) == [state |-> "fulfilled", value |-> v, message |-> <<>>]

Rejected(m) == [state |-> "rejected", value |-> <<>>, message |-> m]

\* ex.message of the axios error
Causes == {"Network Error", "Request failed with status code 500"}

\* bodies of GET /user
UserBodies ==
    [id : {1}, email : {"ann@example.org"}, full_name : {"", "Ann"}, username : {"ann", "bob"}]

\* bodies of GET /user/orgs: lists of organisations, in the API's order
RawOrgs == {[id |-> 2, username |-> "org1"], [id |-> 3, username |-> "org2"]}

OrgBodies == UNION {[1..n -> RawOrgs] : n \in 0..MaxOrgs}

UserResponses ==
    {[state |-> "ok", user |-> b, orgs |-> <<>>, cause |-> ""] : b \in UserBodies}
    \cup {[state |-> "failed", user |-> NoUser, orgs |-> <<>>, cause |-> c] : c \in Causes}

OrgsResponses ==
    {[state |-> "ok", user |-> NoUser, orgs |-> b, cause |-> ""] : b \in OrgBodies}
    \cup {[state |-> "failed", user |-> NoUser, orgs |-> <<>>, cause |-> c] : c \in Causes}

\* an organisation has no email property
NoEmail == "undefined"

\* userInfo, lines 194-207
UserInfo(r) ==
    IF r.state = "ok"
    THEN Fulfilled(<<[id |-> r.user.id,
                      email |-> r.user.email,
                      name |-> IF r.user.full_name # "" THEN r.user.full_name
                                                        ELSE r.user.username,
                      username |-> r.user.username]>>)
    ELSE Rejected(<<"Could not fetch current user info from Gitea instance. ", r.cause>>)

\* listOrgs, lines 212-230
ListOrgs(r) ==
    IF r.state = "ok"
    THEN Fulfilled([k \in DOMAIN r.orgs |->
                       [id |-> r.orgs[k].id,
                        email |-> NoEmail,
                        name |-> r.orgs[k].username,
                        username |-> r.orgs[k].username]])
    ELSE Rejected(<<"Could not fetch user organisations from Gitea instance. ", r.cause>>)

OwnersOrgsFirst(user, orgs) == orgs \o <<user>>

\* ([user, orgs]) => { let owners = [user]; return owners.concat(orgs) }
Owners(user, orgs) == <<user>> \o orgs

PromiseAllSettled(prev, u, o, last) ==
    IF prev.state # "pending" THEN prev
    ELSE IF u.state # "pending" /\ o.state # "pending"
    THEN Fulfilled(u.value \o o.value)
    ELSE prev

\* Promise.all([user, orgs]).then(...) after the promise last has settled:
\* rejected with the first rejection, fulfilled when both are fulfilled; the
\* promise of listOwners takes the state of the returned promise
PromiseAll(prev, u, o, last) ==
    IF prev.state # "pending" THEN prev
    ELSE IF last.state = "rejected" THEN Rejected(last.message)
    ELSE IF u.state = "fulfilled" /\ o.state = "fulfilled"
    THEN Fulfilled(Owners(u.value[1], o.value))
    ELSE prev

\* index.ts line 98 calls listOwners: lines 178-181 issue both requests
OCall ==
    /\ oPc = "idle"
    /\ oPc' = "waiting"
    /\ oRequests' = <<"/user", "/user/orgs">>
    /\ oUserGet' = [NoGet EXCEPT !.state = "inflight"]
    /\ oOrgsGet' = [NoGet EXCEPT !.state = "inflight"]
    /\ UNCHANGED <<oUser, oOrgs, oResult, oSettled>>

\* the response to GET /user arrives
OUserSettles ==
    /\ oUserGet.state = "inflight"
    /\ \E r \in UserResponses :
          /\ oUserGet' = r
          /\ oUser' = UserInfo(r)
          /\ oResult' = PromiseAll(oResult, oUser', oOrgs, oUser')
    /\ oSettled' = Append(oSettled, "/user")
    /\ UNCHANGED <<oPc, oRequests, oOrgsGet, oOrgs>>

\* the response to GET /user/orgs arrives
OOrgsSettles ==
    /\ oOrgsGet.state = "inflight"
    /\ \E r \in OrgsResponses :
          /\ oOrgsGet' = r
          /\ oOrgs' = ListOrgs(r)
          /\ oResult' = PromiseAll(oResult, oUser, oOrgs', oOrgs')
    /\ oSettled' = Append(oSettled, "/user/orgs")
    /\ UNCHANGED <<oPc, oRequests, oUserGet, oUser>>

\* await tea.listOwners() resumes main with the list
OAwaitReturns ==
    /\ oPc = "waiting"
    /\ oResult.state = "fulfilled"
    /\ oPc' = "returned"
    /\ UNCHANGED <<oRequests, oUserGet, oOrgsGet, oUser, oOrgs, oResult, oSettled>>

\* await tea.listOwners() throws in main
OAwaitThrows ==
    /\ oPc = "waiting"
    /\ oResult.state = "rejected"
    /\ oPc' = "thrown"
    /\ UNCHANGED <<oRequests, oUserGet, oOrgsGet, oUser, oOrgs, oResult, oSettled>>

InitOwners == MIdle /\ LIdle /\ SIdle /\ RIdle /\ KIdle /\ OIdle /\ CIdle

NextOwners ==
    \/ OCall /\ UNCHANGED <<mvars, lvars, svars, rvars, kvars, cvars>>
    \/ OUserSettles /\ UNCHANGED <<mvars, lvars, svars, rvars, kvars, cvars>>
    \/ OOrgsSettles /\ UNCHANGED <<mvars, lvars, svars, rvars, kvars, cvars>>
    \/ OAwaitReturns /\ UNCHANGED <<mvars, lvars, svars, rvars, kvars, cvars>>
    \/ OAwaitThrows /\ UNCHANGED <<mvars, lvars, svars, rvars, kvars, cvars>>

SpecOwners == InitOwners /\ [][NextOwners]_vars

(***************************************************************************)
(* Claims about Gitea.listOwners, checked under SpecOwners                 *)
(***************************************************************************)
\* C16: listOwners issues the current-identity GET and the organisations GET
\* both before waiting for either response; when both succeed it returns the
\* authenticated identity first, then the organisations in the order the API
\* returned them, whichever response arrived first.
C16_OwnersIdentityFirst ==
    /\ oPc # "idle" => oRequests = <<"/user", "/user/orgs">>
    /\ oSettled # <<>> => Len(oRequests) = 2
    /\ (oUserGet.state = "ok" /\ oOrgsGet.state = "ok") =>
          /\ oResult.state = "fulfilled"
          /\ Len(oResult.value) = 1 + Len(oOrgsGet.orgs)
          /\ oResult.value[1].id = oUserGet.user.id
          /\ oResult.value[1].username = oUserGet.user.username
          /\ \A k \in DOMAIN oOrgsGet.orgs :
                /\ oResult.value[k + 1].id = oOrgsGet.orgs[k].id
                /\ oResult.value[k + 1].username = oOrgsGet.orgs[k].username
    /\ oPc = "returned" => oUserGet.state = "ok" /\ oOrgsGet.state = "ok"

C16_Witness ==
    /\ oPc = "returned"
    /\ oSettled = <<"/user/orgs", "/user">>
    /\ Len(oOrgsGet.orgs) = 2
    /\ oOrgsGet.orgs[1].username = "org2"
    /\ oOrgsGet.orgs[2].username = "org1"
    /\ oResult.value[1].username = "bob"
    /\ oResult.value[2].username = "org2"

\* the Error of a failed call wraps the cause of that call's failure
Wraps(message, get) == get.state = "failed" /\ message[Len(message)] = get.cause

\* C17: listOwners rejects with an error wrapping the underlying cause, and
\* returns no partial list, whenever the current-identity call or the
\* organisations call fails, whichever fails and in whichever order they
\* settle.
C17_OwnersFailTogether ==
    (oUserGet.state = "failed" \/ oOrgsGet.state = "failed") =>
        /\ oResult.state = "rejected"
        /\ oResult.value = <<>>
        /\ oResult.message \in {oUser.message, oOrgs.message} \ {<<>>}
        /\ Wraps(oResult.message, oUserGet) \/ Wraps(oResult.message, oOrgsGet)
        /\ oPc # "returned"

C17_Witness ==
    /\ oPc = "thrown"
    /\ oSettled = <<"/user", "/user/orgs">>
    /\ oUserGet.state = "ok"
    /\ oOrgsGet.state = "failed"
    /\ oResult.message =
          <<"Could not fetch user organisations from Gitea instance. ", "Network Error">>

(***************************************************************************)
(* Result accounting of Migration.migrateKeys, checked under SpecKeys      *)
(***************************************************************************)
\* the settled key-attach calls of entity p whose settlement satisfies Test
AttachesOf(p, Test(_)) ==
    Cardinality({i \in DOMAIN kAttaches :
                    /\ kAttaches[i].project = p
                    /\ kAttaches[i].state # "inflight"
                    /\ Test(kAttaches[i].resp)})

Attached(r) == Resolved(r)

AlreadyExists(r) == r.hasResponse /\ r.status = KeyExists

OtherFailure(r) == ~Resolved(r) /\ ~AlreadyExists(r)

FetchFailuresOf(p) ==
    Cardinality({i \in DOMAIN kFetches :
                    /\ kFetches[i].project = p
                    /\ kFetches[i].outcome \in {"failed", "threw"}})

\* C21: results are a per-key classification folded into entity lists: each
\* settled key-attach call adds its entity once to exactly one of success
\* (attached), skipped (422) or failed (any other failure, with one error
\* line); at return the three lengths add up to the number of attach calls
\* plus the number of entities whose fetch failed, and |errors| = |failed|.
C21_PerKeyClassification ==
    /\ \A p \in Range(kProjects) :
          /\ Count(kResult.success, p) = AttachesOf(p, Attached)
          /\ Count(kResult.skipped, p) = AttachesOf(p, AlreadyExists)
          /\ Count(kResult.failed, p) = AttachesOf(p, OtherFailure) + FetchFailuresOf(p)
          /\ KErrorLinesOf(p) = Count(kResult.failed, p)
    /\ kState = "returned" =>
          /\ Len(kRetval.success) + Len(kRetval.skipped) + Len(kRetval.failed)
                = Len(kAttaches) + Cardinality({i \in DOMAIN kFetches :
                                                   kFetches[i].outcome \in {"failed", "threw"}})
          /\ Len(kRetval.errors) = Len(kRetval.failed)

(***************************************************************************)
(* Fan-out and ordering of Migration.migrateProjects, checked under Spec   *)
(***************************************************************************)
\* C22: all N create requests are launched before any response of the batch
\* is processed, and launching the request of an entity never waits for the
\* outcome of another: when the loop ends all N requests are in flight.
C22_UnboundedFanOut ==
    /\ \A e \in Entities :
          pc[e] \notin {"idle", "inflight"} =>
              /\ launched = Len(projects)
              /\ Len(posts) = Len(projects)
    /\ callState = "launching" =>
          \A e \in Entities : pc[e] = IF e <= launched THEN "inflight" ELSE "idle"
    /\ (callState = "awaiting" /\ arrived = <<>>) =>
          \A e \in Entities : pc[e] = "inflight"

C22_Witness ==
    /\ Len(projects) = 3
    /\ callState = "awaiting"
    /\ Len(posts) = 3
    /\ \A e \in Entities : pc[e] = "inflight"

\* the position of entity p in a list that holds it once
PositionIn(list, p) == CHOOSE i \in DOMAIN list : list[i] = p

\* the elements of list are in the order in which their calls settled
InArrivalOrder(list) ==
    \A i, j \in DOMAIN list :
        i < j => PositionIn(arrived, list[i]) < PositionIn(arrived, list[j])

\* C24: inside each of success, skipped and failed the entities are in the
\* order in which their responses were processed, not in input order: of two
\* entities in the same collection the one whose call settled first is first.
C24_ArrivalOrder ==
    /\ InArrivalOrder(result.success)
    /\ InArrivalOrder(result.skipped)
    /\ InArrivalOrder(result.failed)
    /\ callState = "returned" =>
          /\ InArrivalOrder(retval.success)
          /\ InArrivalOrder(retval.skipped)
          /\ InArrivalOrder(retval.failed)

C24_Witness ==
    /\ callState = "returned"
    /\ arrived = <<3, 1, 2>>
    /\ retval.success = <<3, 1>>
    /\ retval.failed = <<2>>

(***************************************************************************)
(* main from the confirmation prompt on (src/src/index.ts lines 150-177):  *)
(* migrateProjects on the selected list, then, when the operator opted in, *)
(* migrateKeys.  The actions of the two passes are those of Spec and       *)
(* SpecKeys.                                                               *)
(***************************************************************************)
KeysArgumentMigrated(sel, res) == res.success

\* line 172: migration.migrateKeys(projects, prompt.owner)
KeysArgument(sel, res) == sel

\* the operator has selected at least one project (validate, line 113) and
\* answered the key question; main passes its progress bar (lines 74-76)
CInit ==
    /\ MInit
    /\ Len(projects) \in 1..MaxRunProjects
    /\ hasBar
    /\ LIdle /\ SIdle /\ RIdle /\ KIdle /\ OIdle
    /\ runPc = "prompt"
    /\ optIn \in BOOLEAN

\* lines 150-152: the operator does not confirm
RunDecline ==
    /\ runPc = "prompt"
    /\ runPc' = "declined"
    /\ UNCHANGED <<optIn, mvars, kvars>>

\* lines 158-163: main calls migrateProjects
RunMigrateProjects ==
    /\ runPc = "prompt"
    /\ runPc' = "projects"
    /\ Start
    /\ UNCHANGED <<optIn, kvars>>

\* line 163: the await throws in main
RunProjectsThrew ==
    /\ runPc = "projects"
    /\ callState = "thrown"
    /\ runPc' = "thrown"
    /\ UNCHANGED <<optIn, mvars, kvars>>

\* lines 163-172: migrateProjects has returned; main calls migrateKeys when
\* the operator opted in
RunAfterProjects ==
    /\ runPc = "projects"
    /\ callState = "returned"
    /\ IF optIn
       THEN /\ runPc' = "keys"
            /\ kProjects' = KeysArgument(projects, retval)
            /\ kHasBar' = hasBar
       ELSE /\ runPc' = "done"
            /\ UNCHANGED <<kProjects, kHasBar>>
    /\ UNCHANGED <<optIn, mvars, kState, kDone, kFetches, kFetch, kAttaches, kResult, kBar, kRetval>>

\* line 172: the call of migrateKeys
RunMigrateKeys ==
    /\ runPc = "keys"
    /\ KStart
    /\ UNCHANGED <<cvars, mvars>>

\* migration.ts lines 156-178 within the run: the fetch of the current entity
\* settles (the selected entities hold at most MaxRunKeys keys together)
RunFetchSettle ==
    /\ KFetchSettle
    /\ Len(kAttaches) + kFetches'[Len(kFetches')].keys <= MaxRunKeys
    /\ UNCHANGED <<cvars, mvars>>

\* lines 172-177: migrateKeys has returned, or its await throws in main
RunAfterKeys ==
    /\ runPc = "keys"
    /\ kState \in {"returned", "thrown"}
    /\ runPc' = IF kState = "returned" THEN "done" ELSE "thrown"
    /\ UNCHANGED <<optIn, mvars, kvars>>

NextRun ==
    \/ RunDecline /\ UNCHANGED <<lvars, svars, rvars, ovars>>
    \/ RunMigrateProjects /\ UNCHANGED <<lvars, svars, rvars, ovars>>
    \/ Launch /\ UNCHANGED <<lvars, svars, rvars, kvars, ovars, cvars>>
    \/ Suspend /\ UNCHANGED <<lvars, svars, rvars, kvars, ovars, cvars>>
    \/ \E e \in Entities : Respond(e) /\ UNCHANGED <<lvars, svars, rvars, kvars, ovars, cvars>>
    \/ \E e \in Entities : Handle(e) /\ UNCHANGED <<lvars, svars, rvars, kvars, ovars, cvars>>
    \/ \E e \in Entities : Finally(e) /\ UNCHANGED <<lvars, svars, rvars, kvars, ovars, cvars>>
    \/ AwaitThrows /\ UNCHANGED <<lvars, svars, rvars, kvars, ovars, cvars>>
    \/ AwaitReturns /\ UNCHANGED <<lvars, svars, rvars, kvars, ovars, cvars>>
    \/ RunProjectsThrew /\ UNCHANGED <<lvars, svars, rvars, ovars>>
    \/ RunAfterProjects /\ UNCHANGED <<lvars, svars, rvars, ovars>>
    \/ RunMigrateKeys /\ UNCHANGED <<lvars, svars, rvars, ovars>>
    \/ RunFetchSettle /\ UNCHANGED <<lvars, svars, rvars, ovars>>
    \/ KLoopThrows /\ UNCHANGED <<mvars, lvars, svars, rvars, ovars, cvars>>
    \/ KLoopStep /\ UNCHANGED <<mvars, lvars, svars, rvars, ovars, cvars>>
    \/ \E i \in DOMAIN kAttaches : KAttachSettle(i) /\ UNCHANGED <<mvars, lvars, svars, rvars, ovars, cvars>>
    \/ KAwaitThrows /\ UNCHANGED <<mvars, lvars, svars, rvars, ovars, cvars>>
    \/ KAwaitReturns /\ UNCHANGED <<mvars, lvars, svars, rvars, ovars, cvars>>
    \/ RunAfterKeys /\ UNCHANGED <<lvars, svars, rvars, ovars>>

SpecRun == CInit /\ [][NextRun]_vars

(***************************************************************************)
(* Claims about the run, checked under SpecRun                             *)
(***************************************************************************)
\* the key-attach requests issued for key k of entity p
AttachRequests(p, k) ==
    {j \in DOMAIN kAttaches : kAttaches[j].project = p /\ kAttaches[j].key = k}

\* C23: no retries: one call of migrateProjects issues exactly one create
\* request per input entity, whatever its outcome, and one call of
\* migrateKeys issues exactly one fetch per entity and exactly one attach
\* request per fetched key.
C23_NoRetries ==
    /\ Len(posts) = launched
    /\ \A i \in DOMAIN posts : posts[i] = projects[i]
    /\ callState \in {"awaiting", "returned", "thrown"} =>
          \A e \in Entities : Count(posts, projects[e]) = 1
    /\ \A i \in DOMAIN kFetches : kFetches[i].project = kProjects[i]
    /\ Len(kFetches) <= Len(kProjects)
    /\ kState \in {"awaiting", "returned"} => Len(kFetches) = Len(kProjects)
    /\ \A i \in DOMAIN kProjects :
          IF i <= kDone /\ kFetches[i].outcome = "keys"
          THEN /\ \A k \in 1..kFetches[i].keys :
                     Cardinality(AttachRequests(kProjects[i], k)) = 1
               /\ Cardinality({j \in DOMAIN kAttaches : kAttaches[j].project = kProjects[i]})
                     = kFetches[i].keys
          ELSE \A j \in DOMAIN kAttaches : kAttaches[j].project # kProjects[i]

C23_Witness ==
    /\ runPc = "done"
    /\ Len(projects) = 2
    /\ Len(retval.failed) = 1
    /\ Len(retval.skipped) = 1
    /\ Len(kFetches) = 2
    /\ Len(kAttaches) = MaxRunKeys
    /\ Len(kRetval.failed) = 2

\* C25: the key pass starts only after migrateProjects has returned (no key
\* fetch or key attach is issued while a create request is in flight), only
\* when the operator opted in, and with the full selected list, including
\* the entities whose project migration was skipped or failed.
C25_KeysAfterProjects ==
    (kState # "idle" \/ kFetches # <<>> \/ kAttaches # <<>>) =>
        /\ callState = "returned"
        /\ \A e \in Entities : pc[e] = "finalized"
        /\ optIn
        /\ kProjects = projects

C25_Witness ==
    /\ kState = "returned"
    /\ Len(projects) = 2
    /\ Len(retval.skipped) = 1
    /\ Len(retval.failed) = 1
    /\ Len(kFetches) = 2
    /\ Len(kAttaches) > 0

====
